---- MODULE Spec2Model ----
(***************************************************************************)
(* Model of the UsedArgumentsOfFunction monotone-framework instance of     *)
(* revng's ABI analyses: the per-register lattice (CoreLattice), its       *)
(* pointwise lifting to register-state maps (combineValues, isLessOrEqual, *)
(* getOrDefault), the instruction classifier (ABIAnalysis) and the block   *)
(* transfer function (MFI::applyTransferFunction).                         *)
(*                                                                         *)
(* The code is a library of functions; the state machine below is a caller *)
(* that holds operands, calls the functions on them, and keeps what each   *)
(* call returned next to the operands it was given.                        *)
(***************************************************************************)
EXTENDS Naturals, Integers, Sequences, FiniteSets, TLC

VARIABLES
  mode,       \* which part of the library this run drives
  calls,      \* the functions called so far on the operands below
  cLh, cRh,   \* CoreLattice operands (lattice elements)
  cT,         \* CoreLattice::transfer's TransferFunction argument
  cLeq,       \* returned by CoreLattice::isLessOrEqual(cLh, cRh)
  cComb,      \* returned by CoreLattice::combineValues(cLh, cRh)
  cTrans,     \* returned by CoreLattice::transfer(cT, cLh)
  Lh, Rh,     \* MFI::LatticeElement operands (register-state maps)
  New,        \* the map MFI::combineValues(Lh, Rh) returned
  leq,        \* returned by MFI::isLessOrEqual(Lh, Rh)
  block,      \* the llvm::BasicBlock (Label): its instructions, in order
  CallSite,   \* ABIAnalysis::CallSite: index of a call in block, 0 = none
  isForward,  \* template parameter of MFI
  E,          \* incoming map of applyTransferFunction
  trace,      \* values of applyTransferFunction's local New: after the copy
              \* of E, then after each iteration; the last one is returned
  table,      \* what applyTransferFunction returned for each incoming map,
              \* when the caller hands it every map in turn
  fatal,      \* the process died inside the last call
  idx,        \* the instruction handed to the classifier and the extractors
  kind,       \* returned by classifyInstruction
  written,    \* returned by getRegistersWritten
  read        \* returned by getRegistersRead

coreIn == <<cLh, cRh, cT>>

coreOut == <<cLeq, cComb, cTrans>>

mapIn == <<Lh, Rh>>

mapOut == <<New, leq>>

blockIn == <<block, CallSite, isForward, E>>

blockOut == <<trace, table>>

classifyOut == <<kind, written, read>>

vars == <<mode, calls, coreIn, coreOut, mapIn, mapOut, blockIn, blockOut,
          fatal, idx, classifyOut>>

----------------------------------------------------------------------------
(* Bounds of the model *)

\* number of registers in the catalog (GCBI.abiRegisters())
NumRegs == 2

\* longest block, counted in instructions before the terminator
MaxLen == 2

----------------------------------------------------------------------------
(* Per-register lattice: CoreLattice *)

LatticeElement == {"Maybe", "Unknown", "Yes"}

DefaultLatticeElement == "Maybe"

TransferKind == {"Read", "Write", "WeakWrite", "TheCall", "None",
                 "ReturnFromYes", "ReturnFromMaybe", "ReturnFromNoOrDead",
                 "ReturnFromUnknown", "UnknownFunctionCall"}

CoreLattice_isLessOrEqual(l, r) ==
  \/ l = r
  \/ (l = "Maybe" /\ r = "Yes")
  \/ (l = "Unknown" /\ r = "Maybe")
  \/ (l = "Unknown" /\ r = "Yes")

\* combineValues returning Lh for Maybe against Unknown
CoreLattice_combineValues_LeftBiased(l, r) ==
  IF \/ (l = "Maybe" /\ r = "Yes")
     \/ (l = "Unknown" /\ r = "Yes")
     \/ (l = "Yes" /\ r = "Maybe")
     \/ (l = "Yes" /\ r = "Unknown")
  THEN "Yes"
  ELSE l

\* combineValues taking the lower of Maybe and Unknown
CoreLattice_combineValues_Meet(l, r) ==
  IF \/ (l = "Maybe" /\ r = "Unknown")
     \/ (l = "Unknown" /\ r = "Maybe")
  THEN "Unknown"
  ELSE IF \/ (l = "Maybe" /\ r = "Yes")
          \/ (l = "Unknown" /\ r = "Yes")
          \/ (l = "Yes" /\ r = "Maybe")
          \/ (l = "Yes" /\ r = "Unknown")
       THEN "Yes"
       ELSE l

CoreLattice_combineValues(l, r) ==
  IF \/ (l = "Maybe" /\ r = "Unknown")
     \/ (l = "Unknown" /\ r = "Maybe")
  THEN "Maybe"
  ELSE IF \/ (l = "Maybe" /\ r = "Yes")
          \/ (l = "Unknown" /\ r = "Yes")
          \/ (l = "Yes" /\ r = "Maybe")
          \/ (l = "Yes" /\ r = "Unknown")
       THEN "Yes"
       ELSE l

\* transfer whose Read promotes Unknown as well
CoreLattice_transfer_ReadPromotesUnknown(T, e) ==
  CASE T = "Read" -> "Yes"
    [] T \in {"WeakWrite", "Write"} -> (IF e = "Maybe" THEN "Unknown" ELSE e)
    [] OTHER -> e

\* transfer whose Write has the results for Maybe and Unknown exchanged
CoreLattice_transfer_WriteExchanged(T, e) ==
  CASE T = "Read" -> (IF e = "Maybe" THEN "Yes" ELSE e)
    [] T = "WeakWrite" -> (IF e = "Maybe" THEN "Unknown" ELSE e)
    [] T = "Write" ->
         (CASE e = "Maybe" -> "Unknown"
            [] e = "Unknown" -> "Maybe"
            [] OTHER -> e)
    [] OTHER -> e

\* transfer whose default case resets the element instead of returning it
CoreLattice_transfer_DefaultResets(T, e) ==
  CASE T = "Read" -> (IF e = "Maybe" THEN "Yes" ELSE e)
    [] T \in {"WeakWrite", "Write"} -> (IF e = "Maybe" THEN "Unknown" ELSE e)
    [] OTHER -> DefaultLatticeElement

\* transfer whose Write retracts a Yes
CoreLattice_transfer_WriteRetracts(T, e) ==
  CASE T = "Read" -> (IF e = "Maybe" THEN "Yes" ELSE e)
    [] T = "WeakWrite" -> (IF e = "Maybe" THEN "Unknown" ELSE e)
    [] T = "Write" -> "Unknown"
    [] OTHER -> e

\* transfer whose WeakWrite leaves Maybe alone
CoreLattice_transfer_WeakWriteKeeps(T, e) ==
  CASE T = "Read" -> (IF e = "Maybe" THEN "Yes" ELSE e)
    [] T = "WeakWrite" -> e
    [] T = "Write" -> (IF e = "Maybe" THEN "Unknown" ELSE e)
    [] OTHER -> e

CoreLattice_transfer(T, e) ==
  CASE T = "Read" ->
         (CASE e = "Maybe" -> "Yes"
            [] e = "Yes" -> "Yes"
            [] e = "Unknown" -> "Unknown"
            [] OTHER -> e)
    [] T = "WeakWrite" ->
         (CASE e = "Maybe" -> "Unknown"
            [] e = "Yes" -> "Yes"
            [] e = "Unknown" -> "Unknown"
            [] OTHER -> e)
    [] T = "Write" ->
         (CASE e = "Maybe" -> "Unknown"
            [] e = "Yes" -> "Yes"
            [] e = "Unknown" -> "Unknown"
            [] OTHER -> e)
    [] OTHER -> e

----------------------------------------------------------------------------
(* Register-state maps: llvm::DenseMap<const GlobalVariable *, LatticeElement> *)

\* the catalog: RegisterList / ABIRegisters
Registers == 1..NumRegs

\* a pointer operand that is no catalog register
Untracked == 0

Maps == UNION {[D -> LatticeElement] : D \in SUBSET Registers}

EmptyMap == [k \in {} |-> "Maybe"]

\* New[K] = V on a DenseMap
MapSet(S, K, V) == [k \in DOMAIN S \cup {K} |-> IF k = K THEN V ELSE S[k]]

\* the orders in which a range-for may visit the keys of a DenseMap
IterationOrders(S) ==
  {o \in [1..Cardinality(DOMAIN S) -> DOMAIN S] :
     \A i, j \in DOMAIN o : i # j => o[i] # o[j]}

getOrDefault(S, K) ==
  IF K \in DOMAIN S THEN S[K] ELSE DefaultLatticeElement


\* ABIAnalyses::combineValues: the body of its range-for over Rh, from the
\* i-th key of the iteration order on
RECURSIVE combineLoop(_, _, _, _)
combineLoop(NewM, RhM, order, i) ==
  IF i > Len(order) THEN NewM
  ELSE LET Reg == order[i]
       IN combineLoop(MapSet(NewM, Reg,
                             CoreLattice_combineValues(getOrDefault(NewM, Reg),
                                                       getOrDefault(RhM, Reg))),
                      RhM, order, i + 1)

\* ABIAnalyses::combineValues<MFI, CoreLattice>(Lh, Rh); order is the order in
\* which the DenseMap Rh hands out its keys
combineValues(LhM, RhM, order) == combineLoop(LhM, RhM, order, 1)

\* one range-for of ABIAnalyses::isLessOrEqual: FALSE is its early return
RECURSIVE lessOrEqualLoop(_, _, _, _)
lessOrEqualLoop(LhM, RhM, order, i) ==
  IF i > Len(order) THEN TRUE
  ELSE IF ~CoreLattice_isLessOrEqual(getOrDefault(LhM, order[i]),
                                     getOrDefault(RhM, order[i]))
       THEN FALSE
       ELSE lessOrEqualLoop(LhM, RhM, order, i + 1)

\* isLessOrEqual without its second loop
isLessOrEqual_LhKeysOnly(LhM, RhM, orderL, orderR) ==
  lessOrEqualLoop(LhM, RhM, orderL, 1)

\* ABIAnalyses::isLessOrEqual<MFI, CoreLattice>(Lh, Rh): the loop over the keys
\* of Lh, then the loop over the keys of Rh
isLessOrEqual(LhM, RhM, orderL, orderR) ==
  IF ~lessOrEqualLoop(LhM, RhM, orderL, 1) THEN FALSE
  ELSE lessOrEqualLoop(LhM, RhM, orderR, 1)

\* MFI::combineValues and MFI::isLessOrEqual forward to the templates
MFI_combineValues(LhM, RhM, order) == combineValues(LhM, RhM, order)

MFI_isLessOrEqual(LhM, RhM, orderL, orderR) ==
  isLessOrEqual(LhM, RhM, orderL, orderR)

----------------------------------------------------------------------------
(* Instructions and blocks *)

\* getCalledFunction() of a call: a named function, or "null" for a call
\* with no statically known callee (getCalledFunction() returns nullptr)
Callees == {"precall_hook", "postcall_hook", "null"}

Locations == Registers \cup {Untracked}

StoreInst(p) == [opcode |-> "Store", ptr |-> p, callee |-> "-"]

LoadInst(p) == [opcode |-> "Load", ptr |-> p, callee |-> "-"]

CallInst(c) == [opcode |-> "Call", ptr |-> Untracked, callee |-> c]

\* any instruction whose opcode is none of Store, Load, Call, PHI
OtherInst == [opcode |-> "Other", ptr |-> Untracked, callee |-> "-"]

PHINode == [opcode |-> "PHI", ptr |-> Untracked, callee |-> "-"]

Instructions ==
  {StoreInst(p) : p \in Locations} \cup {LoadInst(p) : p \in Locations}
    \cup {CallInst(c) : c \in Callees} \cup {OtherInst, PHINode}

\* a block is the list of its instructions before the terminator; PHI nodes
\* come first (here: at most one)
Blocks ==
  UNION {{b \in [1..n -> Instructions] :
            \A i \in 2..n : b[i].opcode # "PHI"} : n \in 0..MaxLen}

\* the values ABIAnalysis::CallSite can take for a block: one of its calls,
\* or 0 for nullptr and for a call of another block
CallSites(B) == {0} \cup {i \in DOMAIN B : B[i].opcode = "Call"}

\* BasicBlock::getFirstInsertionPt: the first instruction that is no PHI node;
\* Len(B) + 1 stands for the terminator
getFirstInsertionPt(B) ==
  IF \E i \in DOMAIN B : B[i].opcode # "PHI"
  THEN CHOOSE i \in DOMAIN B :
         /\ B[i].opcode # "PHI"
         /\ \A j \in 1..(i - 1) : B[j].opcode = "PHI"
  ELSE Len(B) + 1

\* C->getCalledFunction()->getName() with getCalledFunction() == nullptr is a
\* call through a null pointer: the process dies, or the comparison reads
\* whatever it reads
NullCalleeOutcomes == {"fatal", "true", "false"}

----------------------------------------------------------------------------
(* Instruction classifier: ABIAnalysis *)

isABIRegister(V) == V \in Registers

\* isCallSiteBlock(B): "true", "false" or "fatal"; ub is the outcome of the
\* null dereference, used only when it happens
isCallSiteBlock(B, ub) ==
  LET p == getFirstInsertionPt(B)
  IN IF p <= Len(B) /\ B[p].opcode = "Call"
     THEN IF B[p].callee = "null" THEN ub
          ELSE IF B[p].callee = "precall_hook" THEN "true" ELSE "false"
     ELSE "false"

\* classifyInstruction that tests the block before it looks at the opcode
classifyInstruction_TestsBlockFirst(B, i, CS, ub) ==
  LET c == isCallSiteBlock(B, ub)
  IN IF c = "fatal" THEN "Fatal"
     ELSE CASE B[i].opcode = "Store" ->
                 IF isABIRegister(B[i].ptr)
                 THEN (IF c = "true" THEN "WeakWrite" ELSE "Write")
                 ELSE "None"
            [] B[i].opcode = "Load" ->
                 IF isABIRegister(B[i].ptr) THEN "Read" ELSE "None"
            [] B[i].opcode = "Call" ->
                 IF i = CS THEN "TheCall" ELSE "None"
            [] OTHER -> "None"

\* classifyInstruction that never asks whether the block is a call-site block
classifyInstruction_NoWeakWrite(B, i, CS, ub) ==
  CASE B[i].opcode = "Store" ->
         IF isABIRegister(B[i].ptr) THEN "Write" ELSE "None"
    [] B[i].opcode = "Load" ->
         IF isABIRegister(B[i].ptr) THEN "Read" ELSE "None"
    [] B[i].opcode = "Call" ->
         IF i = CS THEN "TheCall" ELSE "None"
    [] OTHER -> "None"

\* ABIAnalysis::classifyInstruction on the i-th instruction of B, with
\* CallSite CS: a TransferKind, or "Fatal" when the process died
classifyInstruction(B, i, CS, ub) ==
  CASE B[i].opcode = "Store" ->
         IF isABIRegister(B[i].ptr)
         THEN LET c == isCallSiteBlock(B, ub)
              IN IF c = "fatal" THEN "Fatal"
                 ELSE IF c = "true" THEN "WeakWrite" ELSE "Write"
         ELSE "None"
    [] B[i].opcode = "Load" ->
         IF isABIRegister(B[i].ptr) THEN "Read" ELSE "None"
    [] B[i].opcode = "Call" ->
         IF i = CS THEN "TheCall" ELSE "None"
    [] OTHER -> "None"

\* getRegistersWritten without the catalog test on the store's target
getRegistersWritten_AnyStore(B, i) ==
  IF B[i].opcode = "Store" THEN <<B[i].ptr>> ELSE <<>>

\* ABIAnalysis::getRegistersWritten: a SmallVector of at most one register
getRegistersWritten(B, i) ==
  IF B[i].opcode = "Store" /\ isABIRegister(B[i].ptr)
  THEN <<B[i].ptr>> ELSE <<>>

\* ABIAnalysis::getRegistersRead
getRegistersRead(B, i) ==
  IF B[i].opcode = "Load" /\ isABIRegister(B[i].ptr)
  THEN <<B[i].ptr>> ELSE <<>>

\* ABIAnalysis::getRegisters: RegisterList, in catalog order
getRegisters == [r \in 1..NumRegs |-> r]

----------------------------------------------------------------------------
(* Block transfer: MFI::applyTransferFunction *)

\* for (auto &Reg : RegList) New[Reg] = CoreLattice::transfer(T, getOrDefault(New, Reg))
RECURSIVE transferRegisters(_, _, _, _)
transferRegisters(NewM, RegList, T, j) ==
  IF j > Len(RegList) THEN NewM
  ELSE transferRegisters(MapSet(NewM, RegList[j],
                                CoreLattice_transfer(T, getOrDefault(NewM, RegList[j]))),
                         RegList, T, j + 1)

\* the switch without its TheCall case
transferSwitch_CallSkipped(NewM, B, I, T) ==
  CASE T = "Read" -> transferRegisters(NewM, getRegistersRead(B, I), T, 1)
    [] T \in {"WeakWrite", "Write"} ->
         transferRegisters(NewM, getRegistersWritten(B, I), T, 1)
    [] OTHER -> NewM

\* the switch (T) of the loop body, on instruction I of B
transferSwitch(NewM, B, I, T) ==
  CASE T = "TheCall" -> transferRegisters(NewM, getRegisters, "TheCall", 1)
    [] T = "Read" -> transferRegisters(NewM, getRegistersRead(B, I), T, 1)
    [] T \in {"WeakWrite", "Write"} ->
         transferRegisters(NewM, getRegistersWritten(B, I), T, 1)
    [] OTHER -> NewM

\* the index with the direction ignored
instructionAt_AlwaysForward(B, fwd, i) == i + 1

\* the index with the two directions swapped
instructionAt_Swapped(B, fwd, i) == IF fwd THEN Len(B) - i ELSE i + 1

\* InsList[isForward ? i : (InsList.size() - i - 1)], i counted from 0 as in
\* the code, the result an index into B (counted from 1)
instructionAt(B, fwd, i) == IF fwd THEN i + 1 ELSE Len(B) - i

\* the for loop from iteration i on; tr lists the values New has had so far
RECURSIVE transferLoop(_, _, _, _, _, _)
transferLoop(B, CS, fwd, ub, i, tr) ==
  IF ~(i < Len(B)) THEN [fatal |-> FALSE, trace |-> tr]
  ELSE LET I == instructionAt(B, fwd, i)
           T == classifyInstruction(B, I, CS, ub)
       IN IF T = "Fatal" THEN [fatal |-> TRUE, trace |-> tr]
          ELSE transferLoop(B, CS, fwd, ub, i + 1,
                            Append(tr, transferSwitch(tr[Len(tr)], B, I, T)))

\* MFI<fwd>::applyTransferFunction(L, E): New starts as a copy of E; the
\* result records every value of New, the last one being the returned map,
\* and whether the process died on the way
applyTransferFunction(B, CS, fwd, Ein, ub) ==
  transferLoop(B, CS, fwd, ub, 0, <<Ein>>)

----------------------------------------------------------------------------
(* The caller *)

\* values of the variables a run does not use, and of results before a call
NoCore ==
  /\ cLh = "Maybe" /\ cRh = "Maybe" /\ cT = "None"

NoMaps ==
  /\ Lh = EmptyMap /\ Rh = EmptyMap

NoBlock ==
  /\ block = <<>> /\ CallSite = 0 /\ isForward = TRUE /\ E = EmptyMap /\ idx = 0

NoResults ==
  /\ calls = {}
  /\ cLeq = FALSE /\ cComb = "Maybe" /\ cTrans = "Maybe"
  /\ New = EmptyMap /\ leq = FALSE
  /\ trace = <<>> /\ table = <<>> /\ fatal = FALSE
  /\ kind = "None" /\ written = <<>> /\ read = <<>>

\* operands of the CoreLattice functions
InitCore ==
  /\ mode = "core"
  /\ cLh \in LatticeElement /\ cRh \in LatticeElement /\ cT \in TransferKind
  /\ NoMaps /\ NoBlock /\ NoResults

\* operands of the map functions
InitMap ==
  /\ mode = "map"
  /\ Lh \in Maps /\ Rh \in Maps
  /\ NoCore /\ NoBlock /\ NoResults

\* an analysis instance (catalog, CallSite) and one instruction of a block
InitClassify ==
  /\ mode = "classify"
  /\ block \in Blocks /\ CallSite \in CallSites(block)
  /\ idx \in DOMAIN block
  /\ isForward = TRUE /\ E = EmptyMap
  /\ NoCore /\ NoMaps /\ NoResults

\* an analysis instance with its direction, a block and an incoming map
InitBlock ==
  /\ mode = "block"
  /\ block \in Blocks /\ CallSite \in CallSites(block)
  /\ isForward \in BOOLEAN /\ E \in Maps
  /\ idx = 0
  /\ NoCore /\ NoMaps /\ NoResults

\* an analysis instance with its direction and a block, for a caller that
\* hands the block every incoming map
InitEach ==
  /\ mode = "each"
  /\ block \in Blocks /\ CallSite \in CallSites(block)
  /\ isForward \in BOOLEAN /\ E = EmptyMap
  /\ idx = 0
  /\ NoCore /\ NoMaps /\ NoResults

Init == InitCore \/ InitMap \/ InitClassify \/ InitBlock

CoreIsLessOrEqual ==
  /\ mode = "core"
  /\ cLeq' = CoreLattice_isLessOrEqual(cLh, cRh)
  /\ calls' = calls \cup {"isLessOrEqual"}
  /\ UNCHANGED <<mode, coreIn, cComb, cTrans, mapIn, mapOut, blockIn,
                 blockOut, fatal, idx, classifyOut>>

CoreCombineValues ==
  /\ mode = "core"
  /\ cComb' = CoreLattice_combineValues(cLh, cRh)
  /\ calls' = calls \cup {"combineValues"}
  /\ UNCHANGED <<mode, coreIn, cLeq, cTrans, mapIn, mapOut, blockIn,
                 blockOut, fatal, idx, classifyOut>>

CoreTransfer ==
  /\ mode = "core"
  /\ cTrans' = CoreLattice_transfer(cT, cLh)
  /\ calls' = calls \cup {"transfer"}
  /\ UNCHANGED <<mode, coreIn, cLeq, cComb, mapIn, mapOut, blockIn,
                 blockOut, fatal, idx, classifyOut>>

\* MFI::combineValues(Lh, Rh): both operands are const references
CombineValues ==
  /\ mode = "map"
  /\ \E order \in IterationOrders(Rh) :
       New' = MFI_combineValues(Lh, Rh, order)
  /\ calls' = calls \cup {"combineValues"}
  /\ UNCHANGED <<mode, coreIn, coreOut, mapIn, leq, blockIn, blockOut,
                 fatal, idx, classifyOut>>

\* MFI::isLessOrEqual(Lh, Rh)
IsLessOrEqual ==
  /\ mode = "map"
  /\ \E orderL \in IterationOrders(Lh), orderR \in IterationOrders(Rh) :
       leq' = MFI_isLessOrEqual(Lh, Rh, orderL, orderR)
  /\ calls' = calls \cup {"isLessOrEqual"}
  /\ UNCHANGED <<mode, coreIn, coreOut, mapIn, New, blockIn, blockOut,
                 fatal, idx, classifyOut>>

ClassifyInstruction ==
  /\ mode = "classify"
  /\ \E ub \in NullCalleeOutcomes :
       LET T == classifyInstruction(block, idx, CallSite, ub)
       IN /\ fatal' = (T = "Fatal")
          /\ kind' = IF T = "Fatal" THEN kind ELSE T
  /\ calls' = calls \cup {"classifyInstruction"}
  /\ UNCHANGED <<mode, coreIn, coreOut, mapIn, mapOut, blockIn, blockOut,
                 idx, written, read>>

GetRegistersWritten ==
  /\ mode = "classify"
  /\ written' = getRegistersWritten(block, idx)
  /\ calls' = calls \cup {"getRegistersWritten"}
  /\ UNCHANGED <<mode, coreIn, coreOut, mapIn, mapOut, blockIn, blockOut,
                 fatal, idx, kind, read>>

GetRegistersRead ==
  /\ mode = "classify"
  /\ read' = getRegistersRead(block, idx)
  /\ calls' = calls \cup {"getRegistersRead"}
  /\ UNCHANGED <<mode, coreIn, coreOut, mapIn, mapOut, blockIn, blockOut,
                 fatal, idx, kind, written>>

\* applyTransferFunction with New bound to E instead of copied from it
ApplyTransferFunction_InPlace ==
  /\ mode = "block"
  /\ \E ub \in NullCalleeOutcomes :
       LET r == applyTransferFunction(block, CallSite, isForward, E, ub)
       IN /\ trace' = r.trace
          /\ fatal' = r.fatal
          /\ E' = r.trace[Len(r.trace)]
  /\ calls' = calls \cup {"applyTransferFunction"}
  /\ UNCHANGED <<mode, coreIn, coreOut, mapIn, mapOut, block, CallSite,
                 isForward, table, idx, classifyOut>>

\* MFI<isForward>::applyTransferFunction(block, E): E is a const reference
ApplyTransferFunction ==
  /\ mode = "block"
  /\ \E ub \in NullCalleeOutcomes :
       LET r == applyTransferFunction(block, CallSite, isForward, E, ub)
       IN /\ trace' = r.trace
          /\ fatal' = r.fatal
  /\ calls' = calls \cup {"applyTransferFunction"}
  /\ UNCHANGED <<mode, coreIn, coreOut, mapIn, mapOut, blockIn, table, idx,
                 classifyOut>>

\* MFI<isForward>::applyTransferFunction(block, M) for every incoming map M,
\* as a solver calls it on one block with the maps of successive iterations
ApplyTransferFunctionToEach ==
  /\ mode = "each"
  /\ \E ub \in NullCalleeOutcomes :
       LET r(M) == applyTransferFunction(block, CallSite, isForward, M, ub)
       IN IF r(EmptyMap).fatal
          THEN fatal' = TRUE /\ table' = table
          ELSE /\ fatal' = FALSE
               /\ table' = [M \in Maps |-> r(M).trace[Len(r(M).trace)]]
  /\ calls' = calls \cup {"applyTransferFunction"}
  /\ UNCHANGED <<mode, coreIn, coreOut, mapIn, mapOut, blockIn, trace, idx,
                 classifyOut>>

NextCore == CoreIsLessOrEqual \/ CoreCombineValues \/ CoreTransfer

NextMap == CombineValues \/ IsLessOrEqual

NextClassify == ClassifyInstruction \/ GetRegistersWritten \/ GetRegistersRead

NextBlock == ApplyTransferFunction

NextEach == ApplyTransferFunctionToEach

Next == NextCore \/ NextMap \/ NextClassify \/ NextBlock

\* every part of the library
Spec == Init /\ [][Next]_vars

\* the per-register lattice alone
SpecCore == InitCore /\ [][NextCore]_vars

\* the map lattice alone
SpecMap == InitMap /\ [][NextMap]_vars

\* the instruction classifier alone
SpecClassify == InitClassify /\ [][NextClassify]_vars

\* block transfer alone
SpecBlock == InitBlock /\ [][NextBlock]_vars

\* block transfer as a function of the incoming map
SpecEach == InitEach /\ [][NextEach]_vars

----------------------------------------------------------------------------
(* Properties *)

\* the map applyTransferFunction returned
Returned == trace[Len(trace)]

\* C1: map combine is pointwise over the union of the keys with Maybe as the
\* default: every key k of Lh or of Rh is a key of the result, and the result
\* holds CoreLattice combine of Lh's value and Rh's value at k, an absent key
\* counting as Maybe (keys of Lh alone included).
C1_CombinePointwiseOverUnion ==
  (mode = "map" /\ "combineValues" \in calls) =>
    \A k \in DOMAIN Lh \cup DOMAIN Rh :
      /\ k \in DOMAIN New
      /\ New[k] = CoreLattice_combineValues(getOrDefault(Lh, k),
                                            getOrDefault(Rh, k))

\* C2: per-register combine is an upper bound of both operands, and
\* combine(a, a) = a.
C2_CombineIsUpperBound ==
  (mode = "core" /\ "combineValues" \in calls) =>
    /\ CoreLattice_isLessOrEqual(cLh, cComb)
    /\ CoreLattice_isLessOrEqual(cRh, cComb)
    /\ (cLh = cRh => cComb = cLh)

C2_Witness ==
  /\ mode = "core" /\ "combineValues" \in calls
  /\ cLh = "Unknown" /\ cRh = "Maybe" /\ cComb = "Maybe"

\* C3: map isLessOrEqual is the pointwise order over the union of the keys
\* with Maybe as the default; a register that is a key of neither map does
\* not affect the result, so ranging over the whole catalog gives the same.
C3_LessOrEqualPointwise ==
  (mode = "map" /\ "isLessOrEqual" \in calls) =>
    /\ leq = (\A k \in DOMAIN Lh \cup DOMAIN Rh :
                CoreLattice_isLessOrEqual(getOrDefault(Lh, k),
                                          getOrDefault(Rh, k)))
    /\ leq = (\A k \in Registers :
                CoreLattice_isLessOrEqual(getOrDefault(Lh, k),
                                          getOrDefault(Rh, k)))

\* the order fails on a key that only Rh has
C3_Witness ==
  /\ mode = "map" /\ "isLessOrEqual" \in calls
  /\ DOMAIN Lh = {} /\ DOMAIN Rh = {1} /\ Rh[1] = "Unknown"
  /\ leq = FALSE

\* the block holds no load from and no store to a catalog register
NoTrackedAccess(B) ==
  \A i \in DOMAIN B :
    ~(B[i].opcode \in {"Store", "Load"} /\ B[i].ptr \in Registers)

\* C4 as stated: on a block with no load from and no store to a tracked
\* register, applyTransferFunction returns a map equal to the incoming one,
\* same key set and same values, in both directions.
C4_NoTrackedAccessReturnsEqualMap ==
  (mode = "block" /\ "applyTransferFunction" \in calls
     /\ NoTrackedAccess(block)) =>
    (~fatal /\ Returned = E)

\* C4 amended: on such a block the returned map gives every register the
\* effective value (Maybe for an absent key) the incoming map gives it; its
\* keys are the incoming keys when the block does not hold the distinguished
\* call, and the incoming keys together with the whole catalog when it does.
C4_NoTrackedAccessKeepsValues ==
  (mode = "block" /\ "applyTransferFunction" \in calls
     /\ NoTrackedAccess(block)) =>
    /\ ~fatal
    /\ \A r \in Registers : getOrDefault(Returned, r) = getOrDefault(E, r)
    /\ DOMAIN Returned =
         IF CallSite # 0 THEN DOMAIN E \cup Registers ELSE DOMAIN E

\* the distinguished call among other untracked instructions, the incoming
\* map holding one register only
C4_Witness ==
  /\ mode = "block" /\ "applyTransferFunction" \in calls
  /\ NoTrackedAccess(block) /\ Len(block) = 2 /\ CallSite = 2
  /\ block[1] = StoreInst(Untracked)
  /\ DOMAIN E = {1} /\ E[1] = "Unknown"
  /\ DOMAIN Returned = Registers /\ Returned[1] = "Unknown"

\* the first instruction of B that is no PHI node is a call of callee c
FirstExecutableCalls(B, c) ==
  \E p \in DOMAIN B :
    /\ B[p] = CallInst(c)
    /\ \A j \in 1..(p - 1) : B[j].opcode = "PHI"

\* the Transfer Event C5 states for instruction i of B
StatedKind(B, i, CS) ==
  IF B[i].opcode = "Store" /\ B[i].ptr \in Registers
  THEN IF FirstExecutableCalls(B, "precall_hook") THEN "WeakWrite" ELSE "Write"
  ELSE IF B[i].opcode = "Load" /\ B[i].ptr \in Registers THEN "Read"
  ELSE IF CS # 0 /\ i = CS THEN "TheCall"
  ELSE "None"

\* C5 as stated: for every instruction classify returns WeakWrite for a store
\* to a tracked register in a call-site block, Write for such a store in any
\* other block, Read for a load from a tracked register, TheCall for the
\* distinguished call, and None otherwise.
C5_ClassifyEveryInstruction ==
  (mode = "classify" /\ "classifyInstruction" \in calls) =>
    (~fatal /\ kind = StatedKind(block, idx, CallSite))

\* C5 amended: the same, except for a store to a tracked register in a block
\* whose first executable instruction is a call with no statically known
\* callee, where the call-site test dereferences a null pointer and nothing
\* is stated about the outcome.
C5_ClassifyWellFormed ==
  (mode = "classify" /\ "classifyInstruction" \in calls) =>
    \/ /\ block[idx].opcode = "Store" /\ block[idx].ptr \in Registers
       /\ FirstExecutableCalls(block, "null")
    \/ (~fatal /\ kind = StatedKind(block, idx, CallSite))

\* a store to a tracked register behind the pre-call hook
C5_Witness ==
  /\ mode = "classify" /\ "classifyInstruction" \in calls
  /\ Len(block) = 2 /\ idx = 2
  /\ block[1] = CallInst("precall_hook") /\ block[2] = StoreInst(1)
  /\ ~fatal /\ kind = "WeakWrite"

\* C6: the per-register transfer never demotes under Read and never retracts
\* Yes under Write or WeakWrite; so during a block transfer a register whose
\* value in the running map is Yes has value Yes after every later
\* instruction of the block.
C6_YesIsNeverRetracted ==
  /\ (mode = "core" /\ "transfer" \in calls) =>
       /\ cT = "Read" => CoreLattice_isLessOrEqual(cLh, cTrans)
       /\ (cT \in {"Write", "WeakWrite"} /\ cLh = "Yes") => cTrans = "Yes"
  /\ (mode = "block" /\ "applyTransferFunction" \in calls) =>
       \A j, k \in DOMAIN trace : \A r \in Registers :
         (j < k /\ getOrDefault(trace[j], r) = "Yes") =>
           getOrDefault(trace[k], r) = "Yes"

\* backward over [Store R1, Load R1]: the load proves R1, the store keeps it
C6_Witness ==
  /\ mode = "block" /\ "applyTransferFunction" \in calls
  /\ ~isForward /\ block = <<StoreInst(1), LoadInst(1)>> /\ CallSite = 0
  /\ DOMAIN E = {}
  /\ Len(trace) = 3
  /\ getOrDefault(trace[2], 1) = "Yes" /\ getOrDefault(trace[3], 1) = "Yes"

\* the block with the call of its first executable instruction turned into a
\* call of another function: the same instructions in an ordinary block
Ordinary(B) ==
  [i \in DOMAIN B |->
     IF B[i].opcode = "Call" /\ (\A j \in 1..(i - 1) : B[j].opcode = "PHI")
     THEN CallInst("postcall_hook") ELSE B[i]]

IsStore(I) == I.opcode = "Store"

\* the map returned for block B under the analysis instance of the state
ReturnedFor(B) ==
  LET r == applyTransferFunction(B, CallSite, isForward, E, "fatal")
  IN r.trace[Len(r.trace)]

\* C7: WeakWrite and Write are indistinguishable: transfer(WeakWrite, v) =
\* transfer(Write, v) for every v, so for every incoming map and direction a
\* call-site block returns the map the same instructions return in an
\* ordinary block, and, when none of its calls is the distinguished call,
\* the map its stores alone return.
C7_WeakWriteSameAsWrite ==
  /\ (mode = "core" /\ "transfer" \in calls /\ cT = "WeakWrite") =>
       cTrans = CoreLattice_transfer("Write", cLh)
  /\ (mode = "block" /\ "applyTransferFunction" \in calls
        /\ FirstExecutableCalls(block, "precall_hook")) =>
       /\ ~fatal
       /\ Returned = ReturnedFor(Ordinary(block))
       /\ (CallSite = 0 /\ \A i \in DOMAIN block :
                             block[i].opcode \in {"Store", "Call"}) =>
            Returned = ReturnedFor(SelectSeq(block, IsStore))

\* [precall_hook, Store R1] from {R1: Maybe} returns {R1: Unknown}
C7_Witness ==
  /\ mode = "block" /\ "applyTransferFunction" \in calls
  /\ block = <<CallInst("precall_hook"), StoreInst(1)>> /\ CallSite = 0
  /\ DOMAIN E = {1} /\ E[1] = "Maybe"
  /\ DOMAIN Returned = {1} /\ Returned[1] = "Unknown"
  /\ ReturnedFor(<<StoreInst(1)>>) = Returned

\* C8: read before write proves an argument: a forward instance on the block
\* [Load R1, Store R1] with the empty incoming map returns exactly {R1: Yes},
\* for any tracked register R1.
C8_ReadBeforeWriteGivesYes ==
  \A r \in Registers :
    (mode = "block" /\ "applyTransferFunction" \in calls
       /\ isForward /\ block = <<LoadInst(r), StoreInst(r)>>
       /\ DOMAIN E = {}) =>
      (~fatal /\ DOMAIN Returned = {r} /\ Returned[r] = "Yes")

C8_Witness ==
  /\ mode = "block" /\ "applyTransferFunction" \in calls
  /\ isForward /\ block = <<LoadInst(2), StoreInst(2)>>
  /\ DOMAIN E = {}
  /\ DOMAIN Returned = {2} /\ Returned[2] = "Yes"

\* C9: when the block transfer processes the distinguished call it updates
\* every register of the catalog: each is a key of the map afterwards, with
\* the value it had just before the call (Maybe if it was absent), and is a
\* key of the returned map.
C9_TheCallTouchesEveryRegister ==
  (mode = "block" /\ "applyTransferFunction" \in calls) =>
    \A i \in 0..(Len(trace) - 2) :
      (CallSite # 0 /\ instructionAt(block, isForward, i) = CallSite) =>
        \A R \in Registers :
          /\ R \in DOMAIN trace[i + 2]
          /\ trace[i + 2][R] = getOrDefault(trace[i + 1], R)
          /\ R \in DOMAIN Returned

\* [Load R1, call] from the empty map: R2 becomes a key, nothing changes value
C9_Witness ==
  /\ mode = "block" /\ "applyTransferFunction" \in calls
  /\ isForward /\ Len(block) = 2 /\ CallSite = 2
  /\ block[1] = LoadInst(1)
  /\ DOMAIN E = {}
  /\ DOMAIN trace[2] = {1} /\ trace[2][1] = "Yes"
  /\ DOMAIN trace[3] = Registers /\ trace[3][1] = "Yes"
  /\ \A R \in Registers \ {1} : trace[3][R] = "Maybe"

\* C10: operand maps are never mutated: no call changes a map it was given
\* (the incoming map E, Lh, Rh), whatever calls came before it.
C10_OperandsNeverMutated ==
  [][E' = E /\ Lh' = Lh /\ Rh' = Rh]_vars

\* a call has returned a map that differs from the operand it copied, and
\* the operand is what it was
C10_Witness ==
  /\ mode = "block" /\ "applyTransferFunction" \in calls
  /\ block = <<StoreInst(1), StoreInst(2)>>
  /\ DOMAIN E = {1} /\ E[1] = "Maybe"
  /\ DOMAIN Returned = {1, 2} /\ Returned[1] = "Unknown"

\* the instruction handed to the classifier is a store to a tracked register
\* in a block whose first executable instruction is a call with no callee
NullCalleeReached ==
  /\ block[idx].opcode = "Store" /\ block[idx].ptr \in Registers
  /\ FirstExecutableCalls(block, "null")

\* C11 as stated: classifying any instruction of a block whose first
\* executable instruction is a call with no statically resolvable target
\* ends in a fatal failure and returns no Transfer Event; in every other
\* block classification returns a Transfer Event and never fails.
C11_FatalOnEveryInstruction ==
  (mode = "classify" /\ "classifyInstruction" \in calls) =>
    IF FirstExecutableCalls(block, "null")
    THEN fatal
    ELSE ~fatal /\ kind \in TransferKind

\* C11 amended: classification can fail only on a store to a tracked register
\* in such a block (the one case in which the callee is dereferenced); every
\* other instruction of such a block, and every instruction of every other
\* block, gets a Transfer Event and never fails.
C11_FatalOnlyOnTrackedStore ==
  (mode = "classify" /\ "classifyInstruction" \in calls) =>
    /\ fatal => NullCalleeReached
    /\ ~NullCalleeReached =>
         (~fatal /\ kind \in {"Read", "Write", "WeakWrite", "TheCall", "None"})

\* a load from a tracked register behind a call with no callee is a Read
C11_Witness ==
  /\ mode = "classify" /\ "classifyInstruction" \in calls
  /\ Len(block) = 2 /\ idx = 2
  /\ block[1] = CallInst("null") /\ block[2] = LoadInst(1)
  /\ ~fatal /\ kind = "Read"

\* C12 as stated: per-register combine is asymmetric: for at least one pair
\* of lattice values combine(Lh, Rh) differs from combine(Rh, Lh).
C12_CombineAsymmetric ==
  mode = "core" =>
    \E l, r \in LatticeElement :
      CoreLattice_combineValues(l, r) # CoreLattice_combineValues(r, l)

\* C12 amended: per-register combine is symmetric: what combine(Lh, Rh)
\* returns is what combine(Rh, Lh) returns, for every pair; it returns Lh
\* unchanged by the fallback only when Lh = Rh.
C12_CombineSymmetric ==
  (mode = "core" /\ "combineValues" \in calls) =>
    /\ cComb = CoreLattice_combineValues(cRh, cLh)
    /\ cLh # cRh => cComb = (IF "Yes" \in {cLh, cRh} THEN "Yes" ELSE "Maybe")

C12_Witness ==
  /\ mode = "core" /\ "combineValues" \in calls
  /\ cLh = "Maybe" /\ cRh = "Unknown" /\ cComb = "Maybe"

\* one of the orders in which the keys of S are visited: catalog order
RECURSIVE KeysFrom(_, _)
KeysFrom(S, k) ==
  IF k > NumRegs THEN <<>>
  ELSE IF k \in DOMAIN S THEN <<k>> \o KeysFrom(S, k + 1)
       ELSE KeysFrom(S, k + 1)

SomeOrder(S) == KeysFrom(S, 1)

\* MFI::isLessOrEqual(A, B)
LessOrEqualMaps(A, B) == MFI_isLessOrEqual(A, B, SomeOrder(A), SomeOrder(B))

\* C13: map combine is an upper bound of both operands under map
\* isLessOrEqual, whatever the key sets of the operands.
C13_MapCombineIsUpperBound ==
  (mode = "map" /\ "combineValues" \in calls) =>
    /\ LessOrEqualMaps(Lh, New)
    /\ LessOrEqualMaps(Rh, New)

\* instruction I loads from or stores to register r
Touches(I, r) == I.opcode \in {"Store", "Load"} /\ I.ptr = r

\* the instructions of the block in the order the direction visits them
Traversal ==
  [k \in 1..Len(block) |->
     block[IF isForward THEN k ELSE Len(block) + 1 - k]]

\* the opcode of the first instruction of the traversal touching r, or "-"
FirstAccess(r) ==
  LET ks == {k \in DOMAIN Traversal : Touches(Traversal[k], r)}
  IN IF ks = {} THEN "-"
     ELSE Traversal[CHOOSE k \in ks : \A m \in ks : k <= m].opcode

\* the outgoing effective value C14 states for register r
StatedOutgoing(r) ==
  LET v == getOrDefault(E, r)
  IN IF v \in {"Yes", "Unknown"} THEN v
     ELSE CASE FirstAccess(r) = "Load" -> "Yes"
            [] FirstAccess(r) = "Store" -> "Unknown"
            [] OTHER -> "Maybe"

\* C14: Yes and Unknown are absorbing, so only the first access decides: the
\* outgoing effective value of a register is its incoming one when that is
\* Yes or Unknown; when it is Maybe (or the register is absent) it is Yes if
\* the first instruction touching the register in traversal order reads it,
\* Unknown if that instruction writes it, Maybe if none touches it. Stated of
\* every call that returns a map.
C14_FirstAccessDecides ==
  (mode = "block" /\ "applyTransferFunction" \in calls /\ ~fatal) =>
    \A r \in Registers : getOrDefault(Returned, r) = StatedOutgoing(r)

\* forward over [Store R1, Load R1] from the empty map: the store decides
C14_Witness ==
  /\ mode = "block" /\ "applyTransferFunction" \in calls /\ ~fatal
  /\ isForward /\ block = <<StoreInst(1), LoadInst(1)>>
  /\ DOMAIN E = {}
  /\ DOMAIN Returned = {1} /\ Returned[1] = "Unknown"

\* the pairs of maps M1, M2 with isLessOrEqual(M1, M2)
OrderedMaps ==
  {<<p[1], p[2]>> : p \in {q \in Maps \X Maps : LessOrEqualMaps(q[1], q[2])}}

\* C15: block transfer is monotone: for every block, direction and maps M1,
\* M2 with isLessOrEqual(M1, M2),
\* isLessOrEqual(applyTransferFunction(block, M1),
\* applyTransferFunction(block, M2)) holds. Stated of every block on which
\* the call returns.
C15_TransferIsMonotone ==
  (mode = "each" /\ "applyTransferFunction" \in calls /\ ~fatal) =>
    \A p \in OrderedMaps : LessOrEqualMaps(table[p[1]], table[p[2]])

\* {R1: Unknown} is below {} and not above it; a store to R1 and a load from
\* R2 take them to {R1: Unknown, R2: Yes} both
C15_Witness ==
  /\ mode = "each" /\ "applyTransferFunction" \in calls /\ ~fatal
  /\ block = <<StoreInst(1), LoadInst(2)>>
  /\ LET M1 == [k \in {1} |-> "Unknown"]
     IN /\ LessOrEqualMaps(M1, EmptyMap) /\ ~LessOrEqualMaps(EmptyMap, M1)
        /\ table[M1] = table[EmptyMap]
        /\ table[M1][1] = "Unknown" /\ table[M1][2] = "Yes"

\* the map reached from M by handling the instructions of the block of the
\* state in the given order of indices, from the k-th index on, each with
\* the classification it has in that block
RECURSIVE HandleInOrder(_, _, _)
HandleInOrder(order, k, M) ==
  IF k > Len(order) THEN M
  ELSE HandleInOrder(order, k + 1,
         transferSwitch(M, block, order[k],
                        classifyInstruction(block, order[k], CallSite, "true")))

\* the instructions of B in reverse order
Reversed(B) == [k \in 1..Len(B) |-> B[Len(B) + 1 - k]]

ExecutionOrder == [k \in 1..Len(block) |-> k]

ReverseOrder == [k \in 1..Len(block) |-> Len(block) + 1 - k]

\* C16: the direction flag only reverses the traversal inside the block: the
\* backward instance returns what handling the same instructions, with the
\* same classification, in reverse order returns, the forward instance what
\* handling them in execution order returns; each instruction is handled
\* exactly once in both directions; and the backward instance returns what a
\* forward instance returns on the block with its instructions reversed.
C16_DirectionReversesTraversal ==
  (mode = "block" /\ "applyTransferFunction" \in calls /\ ~fatal) =>
    /\ Returned = HandleInOrder(IF isForward THEN ExecutionOrder
                                ELSE ReverseOrder, 1, E)
    /\ Len(trace) = Len(block) + 1
    /\ \A k \in 1..Len(block) :
         trace[k + 1] =
           HandleInOrder(<<IF isForward THEN k ELSE Len(block) + 1 - k>>, 1,
                         trace[k])
    /\ ~isForward =>
         LET r == applyTransferFunction(Reversed(block),
                                        IF CallSite = 0 THEN 0
                                        ELSE Len(block) + 1 - CallSite,
                                        TRUE, E, "true")
         IN Returned = r.trace[Len(r.trace)]

\* backward over [Store R1, Load R1]: the load is handled first
C16_Witness ==
  /\ mode = "block" /\ "applyTransferFunction" \in calls /\ ~fatal
  /\ ~isForward /\ block = <<StoreInst(1), LoadInst(1)>>
  /\ DOMAIN E = {}
  /\ Returned = HandleInOrder(<<2, 1>>, 1, E)
  /\ Returned # HandleInOrder(<<1, 2>>, 1, E)

\* the three per-instruction queries have all been made on the instruction
AllQueried ==
  /\ mode = "classify"
  /\ {"classifyInstruction", "getRegistersWritten", "getRegistersRead"}
       \subseteq calls

\* the original statement of C17, of every instruction: registersWritten
\* returns the store's target if classify returns Write or WeakWrite and no
\* register otherwise, registersRead the load's source if classify returns
\* Read and no register otherwise.
C17_ExtractorsAgreeOnEveryInstruction ==
  AllQueried =>
    /\ written = IF ~fatal /\ kind \in {"Write", "WeakWrite"}
                 THEN <<block[idx].ptr>> ELSE <<>>
    /\ read = IF ~fatal /\ kind = "Read"
              THEN <<block[idx].ptr>> ELSE <<>>

\* the index in the block of the k-th instruction a block transfer handles
StepIndex(k) == IF isForward THEN k ELSE Len(block) + 1 - k

\* its kind: Write and WeakWrite have the same effect on the map, so the
\* outcome of the call-site test is fixed where it is undefined
StepKind(k) == classifyInstruction(block, StepIndex(k), CallSite, "true")

\* C17: on every instruction that classify classifies, the classifier and
\* the register extractors agree: registersWritten returns exactly the
\* store's target if classify returns Write or WeakWrite and no register
\* otherwise, registersRead exactly the load's source if classify returns
\* Read and no register otherwise; where classify does not return (a tracked
\* store behind an indirect call) registersWritten still returns the store's
\* target. Each Read, Write or WeakWrite step of a block transfer that
\* returns sets exactly the key of that register, to the transferred value,
\* and each None step leaves the map as it was.
C17_ExtractorsAgreeWhereClassified ==
  /\ AllQueried =>
       /\ ~fatal =>
            /\ written = IF kind \in {"Write", "WeakWrite"}
                         THEN <<block[idx].ptr>> ELSE <<>>
            /\ read = IF kind = "Read" THEN <<block[idx].ptr>> ELSE <<>>
       /\ fatal => (NullCalleeReached /\ written = <<block[idx].ptr>>
                                      /\ read = <<>>)
       /\ Len(written) <= 1 /\ Len(read) <= 1
  /\ (mode = "block" /\ "applyTransferFunction" \in calls /\ ~fatal) =>
       \A k \in 1..Len(block) :
         IF StepKind(k) \in {"Read", "Write", "WeakWrite"}
         THEN LET R == block[StepIndex(k)].ptr
              IN /\ DOMAIN trace[k + 1] = DOMAIN trace[k] \cup {R}
                 /\ trace[k + 1][R] =
                      CoreLattice_transfer(StepKind(k),
                                           getOrDefault(trace[k], R))
                 /\ \A q \in DOMAIN trace[k] \ {R} :
                      trace[k + 1][q] = trace[k][q]
         ELSE StepKind(k) = "None" => trace[k + 1] = trace[k]

\* a store to R1 behind the pre-call hook: WeakWrite, one register written,
\* none read
C17_Witness ==
  /\ AllQueried /\ ~fatal
  /\ block = <<CallInst("precall_hook"), StoreInst(1)>> /\ idx = 2
  /\ kind = "WeakWrite" /\ written = <<1>> /\ read = <<>>

====
